---- MODULE Spec2Model ----
(***************************************************************************)
(* CURP Suite: parsing and validation of the Mexican CURP.                 *)
(*                                                                         *)
(* A Python string is modelled as a sequence of one-character strings,     *)
(* so "PAZ" is <<"P", "A", "Z">> and the empty string is <<>>.  The right  *)
(* single quotation mark U+2019 is written "rsquo".  None is the model     *)
(* value of Python's None.                                                 *)
(***************************************************************************)
EXTENDS Integers, Sequences, FiniteSets, TLC

VARIABLES
    curp,               \* argument curp of CURP.__init__
    nombre,             \* argument nombre (None when omitted)
    primer_apellido,    \* argument primer_apellido (None when omitted)
    segundo_apellido,   \* argument segundo_apellido (None when omitted)
    nombre_completo,    \* argument nombre_completo (None when omitted)
    today,              \* date.today().year read by _parse_birth_date
    pc,                 \* "new", "constructed" or "raised"
    raised,             \* class of the exception __init__ raised, or None
    obj,                \* fields of the constructed object, or None
    call                \* last method call on the object: [method, arg, result]

vars == <<curp, nombre, primer_apellido, segundo_apellido, nombre_completo,
          today, pc, raised, obj, call>>

\* None, told apart from every string: no string has a four-letter character
None == <<"None">>

----------------------------------------------------------------------------
(* Characters and the str operations the code uses.                        *)

digits == <<"0", "1", "2", "3", "4", "5", "6", "7", "8", "9">>

ascii_uppercase ==
    <<"A", "B", "C", "D", "E", "F", "G", "H", "I", "J", "K", "L", "M",
      "N", "O", "P", "Q", "R", "S", "T", "U", "V", "W", "X", "Y", "Z">>

ascii_lowercase ==
    <<"a", "b", "c", "d", "e", "f", "g", "h", "i", "j", "k", "l", "m",
      "n", "o", "p", "q", "r", "s", "t", "u", "v", "w", "x", "y", "z">>

Range(s) == {s[i] : i \in 1..Len(s)}

\* x in s, for a one-character x and a string s
In(x, s) == x \in Range(s)

\* s.index(x): zero-based offset of the first occurrence, -1 for ValueError
Index(s, x) ==
    IF In(x, s) THEN (CHOOSE i \in 1..Len(s) :
                        s[i] = x /\ \A j \in 1..(i - 1) : s[j] # x) - 1
    ELSE -1

\* str.upper() of one character
UpperChar(c) ==
    IF In(c, ascii_lowercase) THEN ascii_uppercase[Index(ascii_lowercase, c) + 1]
    ELSE IF c = "ñ" THEN "Ñ"
    ELSE IF c = "é" THEN "É"
    ELSE IF c = "á" THEN "Á"
    ELSE c

upper(s) == [i \in 1..Len(s) |-> UpperChar(s[i])]

\* unidecode() of one character: diacritics folded to ASCII
UnidecodeChar(c) ==
    CASE c = "Ñ" -> "N"
      [] c = "ñ" -> "n"
      [] c = "É" -> "E"
      [] c = "é" -> "e"
      [] c = "Á" -> "A"
      [] c = "á" -> "a"
      [] c = "rsquo" -> "'"
      [] OTHER -> c

unidecode(s) == [i \in 1..Len(s) |-> UnidecodeChar(s[i])]

\* s.replace(a, b) for one-character a and b
replace(s, a, b) == [i \in 1..Len(s) |-> IF s[i] = a THEN b ELSE s[i]]

whitespace == {" "}

RECURSIVE SplitFrom(_, _, _)
\* the words of s from offset i on, cur being the word under construction
SplitFrom(s, i, cur) ==
    IF i > Len(s) THEN (IF cur = <<>> THEN <<>> ELSE <<cur>>)
    ELSE IF s[i] \in whitespace
         THEN (IF cur = <<>> THEN <<>> ELSE <<cur>>) \o SplitFrom(s, i + 1, <<>>)
         ELSE SplitFrom(s, i + 1, Append(cur, s[i]))

\* s.split()
split(s) == SplitFrom(s, 1, <<>>)

RECURSIVE join(_)
\* ' '.join(ws)
join(ws) ==
    IF ws = <<>> THEN <<>>
    ELSE IF Len(ws) = 1 THEN ws[1]
    ELSE ws[1] \o <<" ">> \o join(Tail(ws))

\* s[1:]
Rest(s) == IF s = <<>> THEN <<>> ELSE Tail(s)

----------------------------------------------------------------------------
(* features.py: WordFeatures                                               *)

vowels == <<"A", "E", "I", "O", "U">>

consonants == <<"B", "C", "D", "F", "G", "H", "J", "K", "L", "M", "N", "Ñ",
                "P", "Q", "R", "S", "T", "V", "W", "X", "Y", "Z">>

\* _find_char(charset, word): first character of word in charset, else "X"
find_char(charset, word) ==
    IF \E i \in 1..Len(word) : In(word[i], charset)
    THEN word[CHOOSE i \in 1..Len(word) :
                /\ In(word[i], charset)
                /\ \A j \in 1..(i - 1) : ~In(word[j], charset)]
    ELSE "X"

find_vowel(word) == find_char(vowels, word)

find_consonant(word) == find_char(consonants, word)

RECURSIVE ReplaceAll(_, _)
\* for c in special_chars: word = word.replace(c, " ")
ReplaceAll(word, chars) ==
    IF chars = <<>> THEN word
    ELSE ReplaceAll(replace(word, chars[1], " "), Tail(chars))

\* word.upper().replace("Ñ", "X"), unidecode, and the special characters
\* replaced by spaces
normalise(text, special) ==
    ReplaceAll(unidecode(replace(upper(text), "Ñ", "X")), special)

\* pieces kept whether ignored words or not
keep_pieces_all(pieces, ignored) == pieces

\* [w for w in pieces[:-1] if w not in ignored_words] + [pieces[-1]]
keep_pieces(pieces, ignored) ==
    SelectSeq(SubSeq(pieces, 1, Len(pieces) - 1), LAMBDA w : w \notin ignored)
    \o <<pieces[Len(pieces)]>>

\* features whose vowel and consonant are looked for from the first letter on
features_of_whole_word(word, has_piece) ==
    [char      |-> IF has_piece THEN word[1] ELSE "X",
     vowel     |-> find_vowel(word),
     consonant |-> find_consonant(word)]

\* the three features read off word; char stays "X" when there is no piece
features_of(word, has_piece) ==
    [char      |-> IF has_piece THEN word[1] ELSE "X",
     vowel     |-> find_vowel(Rest(word)),
     consonant |-> find_consonant(Rest(word))]

\* "if pieces:": the first piece kept, else the text as it stands
pieces_features(word, pieces, ignored) ==
    IF pieces # <<>> THEN features_of(keep_pieces(pieces, ignored)[1], TRUE)
    ELSE features_of(word, FALSE)

\* WordFeatures.__init__: the record of char, vowel and consonant
WordFeatures(text, ignored, special) ==
    pieces_features(normalise(text, special),
                    split(normalise(text, special)), ignored)

----------------------------------------------------------------------------
(* estados.py, altisonantes.py and exceptions.py                           *)

\* estados: the region table, in the order of the source
estados ==
    << [key |-> <<"A", "S">>, name |-> "Aguascalientes", iso |-> "MX-AGU"],
       [key |-> <<"B", "C">>, name |-> "Baja California", iso |-> "MX-BCN"],
       [key |-> <<"B", "S">>, name |-> "Baja California Sur", iso |-> "MX-BCS"],
       [key |-> <<"C", "C">>, name |-> "Campeche", iso |-> "MX-CAM"],
       [key |-> <<"C", "L">>, name |-> "Coahuila de Zaragoza", iso |-> "MX-COA"],
       [key |-> <<"C", "M">>, name |-> "Colima", iso |-> "MX-COL"],
       [key |-> <<"C", "S">>, name |-> "Chiapas", iso |-> "MX-CHP"],
       [key |-> <<"C", "H">>, name |-> "Chihuahua", iso |-> "MX-CHH"],
       [key |-> <<"D", "F">>, name |-> "Ciudad de México", iso |-> "MX-CMX"],
       [key |-> <<"D", "G">>, name |-> "Durango", iso |-> "MX-DUR"],
       [key |-> <<"G", "T">>, name |-> "Guanajuato", iso |-> "MX-GUA"],
       [key |-> <<"G", "R">>, name |-> "Guerrero", iso |-> "MX-GRO"],
       [key |-> <<"H", "G">>, name |-> "Hidalgo", iso |-> "MX-HID"],
       [key |-> <<"J", "C">>, name |-> "Jalisco", iso |-> "MX-JAL"],
       [key |-> <<"M", "C">>, name |-> "México", iso |-> "MX-MEX"],
       [key |-> <<"M", "N">>, name |-> "Michoacán de Ocampo", iso |-> "MX-MIC"],
       [key |-> <<"M", "S">>, name |-> "Morelos", iso |-> "MX-MOR"],
       [key |-> <<"N", "T">>, name |-> "Nayarit", iso |-> "MX-NAY"],
       [key |-> <<"N", "L">>, name |-> "Nuevo León", iso |-> "MX-NLE"],
       [key |-> <<"O", "C">>, name |-> "Oaxaca", iso |-> "MX-OAX"],
       [key |-> <<"P", "L">>, name |-> "Puebla", iso |-> "MX-PUE"],
       [key |-> <<"Q", "T">>, name |-> "Querétaro", iso |-> "MX-QUE"],
       [key |-> <<"Q", "R">>, name |-> "Quintana Roo", iso |-> "MX-ROO"],
       [key |-> <<"S", "P">>, name |-> "San Luis Potosí", iso |-> "MX-SLP"],
       [key |-> <<"S", "L">>, name |-> "Sinaloa", iso |-> "MX-SIN"],
       [key |-> <<"S", "R">>, name |-> "Sonora", iso |-> "MX-SON"],
       [key |-> <<"T", "C">>, name |-> "Tabasco", iso |-> "MX-TAB"],
       [key |-> <<"T", "S">>, name |-> "Tamaulipas", iso |-> "MX-TAM"],
       [key |-> <<"T", "L">>, name |-> "Tlaxcala", iso |-> "MX-TLA"],
       [key |-> <<"V", "Z">>, name |-> "Veracruz de Ignacio de la Llave", iso |-> "MX-VER"],
       [key |-> <<"Y", "N">>, name |-> "Yucatán", iso |-> "MX-YUC"],
       [key |-> <<"Z", "S">>, name |-> "Zacatecas", iso |-> "MX-ZAC"],
       [key |-> <<"N", "E">>, name |-> "Extranjero", iso |-> "None"] >>

\* altisonantes: censored skeleton -> the real vowels it stands for
altisonantes ==
    << [key |-> <<"B", "X", "C", "A">>, vowels |-> <<"A">>] >>

\* the exception classes and the class each one derives from
ExceptionBase ==
    [CURPValueError         |-> "ValueError",
     CURPLengthError        |-> "CURPValueError",
     CURPVerificationError  |-> "CURPValueError",
     CURPNameError          |-> "CURPValueError",
     CURPFirstSurnameError  |-> "CURPValueError",
     CURPSecondSurnameError |-> "CURPValueError",
     CURPFullNameError      |-> "CURPValueError",
     CURPDateError          |-> "CURPValueError",
     CURPSexError           |-> "CURPValueError",
     CURPRegionError        |-> "CURPValueError"]

NoError == "NoError"

\* isinstance(e, cls) for a raised exception of class e
IsInstance(e, cls) ==
    \/ e = cls
    \/ e \in DOMAIN ExceptionBase /\ ExceptionBase[e] = cls

----------------------------------------------------------------------------
(* chars.py: CURPChar, the zero-based offsets of the fields                *)

SURNAME_A_CHAR == 0
SURNAME_A_VOWEL == 1
SURNAME_A_CONSONANT == 13
SURNAME_B_CHAR == 2
SURNAME_B_CONSONANT == 14
NAME_CHAR == 3
NAME_CONSONANT == 15
YEAR_0 == 4
YEAR_1 == 5
MONTH_0 == 6
MONTH_1 == 7
DAY_0 == 8
DAY_1 == 9
SEX == 10
REGION_0 == 11
REGION_1 == 12
HOMONYMY == 16
VERIFICATION == 17

\* c[i] for a zero-based offset i
At(c, i) == c[i + 1]

----------------------------------------------------------------------------
(* curp.py: class CURP, its constants                                      *)

LENGTH == 18

\* str.index only returns the first match: "N" stands twice in the charset
CHARSET == digits \o SubSeq(ascii_uppercase, 1, 14) \o <<"N">>
           \o SubSeq(ascii_uppercase, 15, 26)

ignored_words ==
    { <<"D", "A">>, <<"D", "A", "S">>, <<"D", "E">>, <<"D", "E", "L">>,
      <<"D", "E", "R">>, <<"D", "I">>, <<"D", "I", "E">>, <<"D", "D">>,
      <<"E", "L">>, <<"L", "A">>, <<"L", "O", "S">>, <<"L", "A", "S">>,
      <<"L", "E">>, <<"L", "E", "S">>, <<"M", "A", "C">>, <<"M", "C">>,
      <<"V", "A", "N">>, <<"V", "O", "N">>, <<"Y">> }

special_chars == <<"/", "-", ".", "'", "rsquo">>

ignored_names ==
    { <<"M", "A", "R", "I", "A">>, <<"M", "A">>, <<"M", "A", ".">>,
      <<"J", "O", "S", "E">>, <<"J">>, <<"J", ".">> }

\* a table of sexes with the two values exchanged
sexes_exchanged(c) == IF c = "H" THEN 2 ELSE IF c = "M" THEN 1 ELSE 0

\* Sexo: DESCONOCIDO = 0, HOMBRE = 1, MUJER = 2
sexes(c) == IF c = "H" THEN 1 ELSE IF c = "M" THEN 2 ELSE 0

\* dict lookups: the entry of a key, and whether the key is present
HasKey(table, k) == \E i \in 1..Len(table) : table[i].key = k

Lookup(table, k) == table[CHOOSE i \in 1..Len(table) : table[i].key = k]

\* _inc_uncensored: every skeleton with its "X" replaced by one of its vowels
inc_uncensored ==
    UNION { { <<altisonantes[i].key[1], altisonantes[i].vowels[j]>>
                \o SubSeq(altisonantes[i].key, 3, 4) :
              j \in 1..Len(altisonantes[i].vowels) } :
            i \in 1..Len(altisonantes) }

NameParseState == <<"NONE", "GIVEN_NAMES", "FIRST_SURNAME", "SECOND_SURNAME">>

----------------------------------------------------------------------------
(* curp.py: the checksum                                                   *)

RECURSIVE WeightedSum_from_one(_, _)
\* a sum whose weights start at 1 where the source starts them at 2
WeightedSum_from_one(rev, k) ==
    IF k > Len(rev) THEN 0
    ELSE k * Index(CHARSET, rev[k]) + WeightedSum_from_one(rev, k + 1)

RECURSIVE WeightedSum(_, _)
\* sum([i * CHARSET.index(x) for i, x in enumerate(rev[k:], k + 1)])
WeightedSum(rev, k) ==
    IF k > Len(rev) THEN 0
    ELSE (k + 1) * Index(CHARSET, rev[k]) + WeightedSum(rev, k + 1)

\* a _verification_sum that looks up the check digit only and lets the
\* characters it sums be any character
verification_sum_last_only(c) ==
    LET rev == [k \in 1..(Len(c) - 1) |-> c[Len(c) - k]]
    IN  IF ~In(c[Len(c)], CHARSET) THEN -1
        ELSE WeightedSum(rev, 1)

\* _verification_sum: -1 stands for the CURPValueError it raises
verification_sum(c) ==
    LET rev == [k \in 1..(Len(c) - 1) |-> c[Len(c) - k]]   \* curp[-2::-1]
    IN  IF \E i \in 1..Len(c) : ~In(c[i], CHARSET) THEN -1
        ELSE WeightedSum(rev, 1)

\* _sum_to_verify_digit
sum_to_verify_digit(sm) ==
    LET d == sm % 10
    IN  digits[(IF d # 0 THEN 10 - d ELSE d) + 1]

\* a _validate_verify that accepts every check digit
validate_verify_any(c) == verification_sum(c) = verification_sum(c)

\* _validate_verify, once _verification_sum has not raised
validate_verify(c) ==
    sum_to_verify_digit(verification_sum(c)) = At(c, VERIFICATION)

----------------------------------------------------------------------------
(* curp.py: the fields of the code                                         *)

IsDigit(c) == In(c, digits)

\* an int(a + b) that reads a letter as the digit before 0
Int2_letters(a, b) == 10 * Index(digits, a) + Index(digits, b)

\* int(a + b): -1 stands for ValueError.  Every character that reaches the
\* call is a digit or an uppercase letter (_verification_sum has passed).
Int2(a, b) ==
    IF IsDigit(a) /\ IsDigit(b) THEN 10 * Index(digits, a) + Index(digits, b)
    ELSE -1

\* leap years every four years, the centuries included
IsLeap_every_four(y) == y % 4 = 0

IsLeap(y) == (y % 4 = 0 /\ y % 100 # 0) \/ y % 400 = 0

DaysInMonth(y, m) ==
    IF m = 2 THEN (IF IsLeap(y) THEN 29 ELSE 28)
    ELSE IF m \in {4, 6, 9, 11} THEN 30 ELSE 31

\* datetime.date(y, m, d) does not raise ValueError
IsDate(y, m, d) ==
    /\ y \in 1..9999
    /\ m \in 1..12
    /\ d \in 1..DaysInMonth(y, m)

NoDate == [year |-> 0, month |-> 0, day |-> 0]

\* the century before the homoclave is looked at: a year above the current
\* one is taken to be of the last century
century_guess(year, current_year) ==
    IF year > (current_year % 100) THEN (current_year \div 100) - 1
    ELSE current_year \div 100

\* a century that is not forced to 19 by a digit homoclave
century_of_any_homoclave(guess, before_2k) == IF guess = 19 THEN 20 ELSE guess

\* "if before_2k: century = 19 / elif century == 19: century = 20"
century_of(guess, before_2k) ==
    IF before_2k THEN 19 ELSE IF guess = 19 THEN 20 ELSE guess

\* a date(year, month, day) whose ValueError is left to the caller
make_date_uncaught(year, month, day) ==
    IF ~IsDate(year, month, day) THEN [error |-> "ValueError", value |-> NoDate]
    ELSE [error |-> NoError,
          value |-> [year |-> year, month |-> month, day |-> day]]

\* date(year, month, day), CURPDateError for its ValueError
make_date(year, month, day) ==
    IF ~IsDate(year, month, day) THEN [error |-> "CURPDateError", value |-> NoDate]
    ELSE [error |-> NoError,
          value |-> [year |-> year, month |-> month, day |-> day]]

\* a _parse_birth_date that reports letters in the date as a date error
birth_date_of_date_error(day, month, year, before_2k, current_year) ==
    IF day = -1 \/ month = -1 \/ year = -1
    THEN [error |-> "CURPDateError", value |-> NoDate]
    ELSE make_date(year + century_of(century_guess(year, current_year),
                                     before_2k) * 100,
                   month, day)

\* _parse_birth_date once the three numbers are read
birth_date_of(day, month, year, before_2k, current_year) ==
    IF day = -1 \/ month = -1 \/ year = -1
    THEN [error |-> "CURPValueError", value |-> NoDate]
    ELSE make_date(year + century_of(century_guess(year, current_year),
                                     before_2k) * 100,
                   month, day)

\* _parse_birth_date, current_year being date.today().year
parse_birth_date(c, current_year) ==
    birth_date_of(Int2(At(c, DAY_0), At(c, DAY_1)),
                  Int2(At(c, MONTH_0), At(c, MONTH_1)),
                  Int2(At(c, YEAR_0), At(c, YEAR_1)),
                  In(At(c, HOMONYMY), digits),
                  current_year)

\* "if not sex: raise CURPSexError"
sex_result(sex) ==
    IF sex = 0 THEN [error |-> "CURPSexError", value |-> 0]
    ELSE [error |-> NoError, value |-> sex]

\* _parse_sex
parse_sex(c) == sex_result(sexes(At(c, SEX)))

NoRegion == [name |-> "", iso |-> ""]

\* a lookup that takes a code the table lacks for a birth abroad
region_result_abroad(curp_region) ==
    IF ~HasKey(estados, curp_region)
    THEN [error |-> NoError,
          value |-> [name |-> Lookup(estados, <<"N", "E">>).name,
                     iso  |-> Lookup(estados, <<"N", "E">>).iso]]
    ELSE [error |-> NoError,
          value |-> [name |-> Lookup(estados, curp_region).name,
                     iso  |-> Lookup(estados, curp_region).iso]]

\* "region = self._regions.get(curp_region, None)" and what follows
region_result(curp_region) ==
    IF ~HasKey(estados, curp_region)
    THEN [error |-> "CURPRegionError", value |-> NoRegion]
    ELSE [error |-> NoError,
          value |-> [name |-> Lookup(estados, curp_region).name,
                     iso  |-> Lookup(estados, curp_region).iso]]

\* _parse_region
parse_region(c) == region_result(<<At(c, REGION_0), At(c, REGION_1)>>)

\* a character check that looks at the three consonants only
name_chars_valid_consonants_only(c) ==
    \A i \in {NAME_CONSONANT, SURNAME_A_CONSONANT, SURNAME_B_CONSONANT} :
        In(At(c, i), consonants)

\* _validate_name_chars: "valid" at the end of the loop over name_chars
name_chars_valid(c) ==
    LET name_chars == << <<NAME_CHAR, NAME_CONSONANT>>,
                         <<SURNAME_A_CHAR, SURNAME_A_CONSONANT>>,
                         <<SURNAME_B_CHAR, SURNAME_B_CONSONANT>> >>
    IN  /\ In(At(c, SURNAME_A_VOWEL), vowels \o <<"X">>)
        /\ \A k \in 1..Len(name_chars) :
             /\ In(At(c, name_chars[k][1]), ascii_uppercase)
             /\ In(At(c, name_chars[k][2]), consonants)

\* a _validate_name_chars that lets an uncensored word through
validate_name_chars_uncensored(c) == name_chars_valid(c)

\* _validate_name_chars
validate_name_chars(c) ==
    IF SubSeq(c, 1, NAME_CHAR + 1) \in inc_uncensored THEN FALSE
    ELSE name_chars_valid(c)

\* the property es_extranjero: "not self._birth_place['iso']"
es_extranjero(o) == o.birth_place.iso \in {"None", ""}

----------------------------------------------------------------------------
(* curp.py: matching a name against the code                               *)

\* a pop that drops a common first name even when it is the only piece
pop_common_name_always(pieces) ==
    IF pieces # <<>> /\ unidecode(pieces[1]) \in ignored_names
    THEN Tail(pieces) ELSE pieces

\* "if len(pieces) > 1 and unidecode(pieces[0]) in self._ignored_names:
\*      pieces.pop(0)"
pop_common_name(pieces) ==
    IF Len(pieces) > 1 /\ unidecode(pieces[1]) \in ignored_names
    THEN Tail(pieces) ELSE pieces

\* the comparison nombre_valido makes with the features wf
name_matches(c, wf) ==
    /\ At(c, NAME_CHAR) = wf.char
    /\ At(c, NAME_CONSONANT) = wf.consonant

\* nombre_valido
nombre_valido(c, name) ==
    name_matches(c, WordFeatures(join(pop_common_name(split(upper(name)))),
                                 ignored_words, special_chars))

\* a comparison that never looks the start of the code up in the table
first_surname_matches_no_table(c, curp_start, wf) ==
    /\ At(c, SURNAME_A_CHAR) = wf.char
    /\ At(c, SURNAME_A_CONSONANT) = wf.consonant
    /\ At(c, SURNAME_A_VOWEL) = wf.vowel

\* the comparison primer_apellido_valido makes with the features wf
first_surname_matches(c, curp_start, wf) ==
    IF /\ At(c, SURNAME_A_CHAR) = wf.char
       /\ At(c, SURNAME_A_CONSONANT) = wf.consonant
    THEN \/ At(c, SURNAME_A_VOWEL) = wf.vowel
         \/ /\ HasKey(altisonantes, curp_start)
            /\ In(wf.vowel, Lookup(altisonantes, curp_start).vowels)
    ELSE FALSE

\* a primer_apellido_valido that refuses the empty surname
primer_apellido_valido_not_empty(c, surname) ==
    /\ surname # <<>>
    /\ first_surname_matches(c, SubSeq(c, 1, NAME_CHAR + 1),
                             WordFeatures(surname, ignored_words, special_chars))

\* primer_apellido_valido
primer_apellido_valido(c, surname) ==
    first_surname_matches(c, SubSeq(c, 1, NAME_CHAR + 1),
                          WordFeatures(surname, ignored_words, special_chars))

\* a comparison with the consonant of the first surname
second_surname_matches_first_consonant(c, wf) ==
    /\ At(c, SURNAME_B_CHAR) = wf.char
    /\ At(c, SURNAME_A_CONSONANT) = wf.consonant

\* the comparison segundo_apellido_valido makes with the features wf
second_surname_matches(c, wf) ==
    /\ At(c, SURNAME_B_CHAR) = wf.char
    /\ At(c, SURNAME_B_CONSONANT) = wf.consonant

\* segundo_apellido_valido
segundo_apellido_valido(c, surname) ==
    second_surname_matches(c, WordFeatures(surname, ignored_words, special_chars))

\* property segundo_apellido_vacio
segundo_apellido_vacio(c) == segundo_apellido_valido(c, <<>>)

\* property primer_apellido_vacio
primer_apellido_vacio(c) ==
    segundo_apellido_vacio(c) /\ primer_apellido_valido(c, <<>>)

----------------------------------------------------------------------------
(* curp.py: nombre_completo_valido, the scan of a full name                *)

\* next(state_gen)
next_state(state) ==
    IF state = "SECOND_SURNAME" THEN "StopIteration"
    ELSE NameParseState[Index(NameParseState, state) + 2]

\* a table whose last matcher is that of the second surname again
validation_second_again(c, state, word) ==
    CASE state = "NONE"           -> nombre_valido(c, word)
      [] state = "GIVEN_NAMES"    -> primer_apellido_valido(c, word)
      [] state = "FIRST_SURNAME"  -> segundo_apellido_valido(c, word)
      [] state = "SECOND_SURNAME" -> segundo_apellido_valido(c, word)

\* validation[state](word)
validation(c, state, word) ==
    CASE state = "NONE"           -> nombre_valido(c, word)
      [] state = "GIVEN_NAMES"    -> primer_apellido_valido(c, word)
      [] state = "FIRST_SURNAME"  -> segundo_apellido_valido(c, word)
      [] state = "SECOND_SURNAME" -> FALSE

\* the locals of nombre_completo_valido before the loop
scan_start ==
    [state          |-> NameParseState[1],
     names          |-> [k \in Range(NameParseState) |-> <<>>],
     ignored_buffer |-> <<>>,
     returned       |-> FALSE]

\* an append that puts the word before the ignored words kept for it
scan_append_word_first(st, word, state) ==
    [st EXCEPT !.state = state,
               !.names[state] = @ \o <<word>> \o st.ignored_buffer,
               !.ignored_buffer = <<>>]

\* the buffered ignored words, then the word, go to the part of state
scan_append(st, word, state) ==
    [st EXCEPT !.state = state,
               !.names[state] = @ \o st.ignored_buffer \o <<word>>,
               !.ignored_buffer = <<>>]

\* a loop that adds the matched word to the part it was read in
scan_normal_old_part(st, word, matched) ==
    IF matched
    THEN [scan_append(st, word, st.state) EXCEPT !.state = next_state(st.state)]
    ELSE IF st.state = "NONE" /\ unidecode(upper(word)) \notin ignored_names
    THEN [st EXCEPT !.returned = TRUE]
    ELSE scan_append(st, word, st.state)

\* a word that is not ignored, matched telling whether validation[state]
\* accepted it; returned is set by the "return False" inside the loop
scan_normal(st, word, matched) ==
    IF matched THEN scan_append(st, word, next_state(st.state))
    ELSE IF st.state = "NONE" /\ unidecode(upper(word)) \notin ignored_names
    THEN [st EXCEPT !.returned = TRUE]
    ELSE scan_append(st, word, st.state)

\* a loop that keeps every word the given-name matcher refuses
scan_word_lenient(c, st, word) ==
    IF unidecode(upper(word)) \notin ignored_words
    THEN IF validation(c, st.state, word) THEN scan_normal(st, word, TRUE)
         ELSE scan_append(st, word, st.state)
    ELSE [st EXCEPT !.ignored_buffer = Append(@, word)]

\* one iteration of the loop over nombre_completo.split()
scan_word(c, st, word) ==
    IF unidecode(upper(word)) \notin ignored_words
    THEN scan_normal(st, word, validation(c, st.state, word))
    ELSE [st EXCEPT !.ignored_buffer = Append(@, word)]

RECURSIVE scan_words(_, _, _)
\* the loop, stopped by its "return False"
scan_words(c, st, words) ==
    IF words = <<>> \/ st.returned THEN st
    ELSE scan_words(c, scan_word(c, st, words[1]), Tail(words))

\* the locals when the loop is over
scan(c, full) == scan_words(c, scan_start, split(full))

NotValid == [valid |-> FALSE, names |-> <<>>]

\* a tuple without the common first names read before the given name
names_tuple_given_only(names) ==
    << join(names["GIVEN_NAMES"]),
       join(names["FIRST_SURNAME"]),
       join(names["SECOND_SURNAME"]) >>

\* the tuple returned: the first two parts merged, each part joined
names_tuple(names) ==
    << join(names["NONE"] \o names["GIVEN_NAMES"]),
       join(names["FIRST_SURNAME"]),
       join(names["SECOND_SURNAME"]) >>

\* a "valid" that never admits a name without surnames
scan_valid_no_cascade(c, state) ==
    IF state = "FIRST_SURNAME" THEN segundo_apellido_vacio(c)
    ELSE state = "SECOND_SURNAME"

\* "valid" after the loop
scan_valid(c, state) ==
    IF state = "FIRST_SURNAME" THEN segundo_apellido_vacio(c)
    ELSE IF state = "GIVEN_NAMES" THEN primer_apellido_vacio(c)
    ELSE state = "SECOND_SURNAME"

\* the value nombre_completo_valido returns from the locals st
scan_result(c, st) ==
    IF st.returned THEN NotValid
    ELSE IF scan_valid(c, st.state)
    THEN [valid |-> TRUE,
          names |-> names_tuple([st.names EXCEPT
                                   ![st.state] = @ \o st.ignored_buffer])]
    ELSE NotValid

\* nombre_completo_valido: valid is FALSE for the value False, TRUE for a tuple
nombre_completo_valido(c, full) == scan_result(c, scan(c, full))

----------------------------------------------------------------------------
(* curp.py: CURP.__init__                                                  *)

NoObject ==
    [name |-> None, first_surname |-> None, second_surname |-> None,
     birth_date |-> NoDate, sex |-> 0, birth_place |-> NoRegion]

Raise(cls) == [raised |-> cls, obj |-> NoObject]

\* "if names: ... else: raise CURPFullNameError"
init_full_name(o, names) ==
    IF names.valid
    THEN [raised |-> NoError,
          obj |-> [o EXCEPT !.name = upper(names.names[1]),
                            !.first_surname = upper(names.names[2]),
                            !.second_surname = upper(names.names[3])]]
    ELSE Raise("CURPFullNameError")

\* name checks that look at the full name whenever one is given
init_names_full_always(c, n, a, b, full, o) ==
    IF n # None /\ ~nombre_valido(c, n) THEN Raise("CURPNameError")
    ELSE IF a # None /\ ~primer_apellido_valido(c, a)
    THEN Raise("CURPFirstSurnameError")
    ELSE IF b # None /\ ~segundo_apellido_valido(c, b)
    THEN Raise("CURPSecondSurnameError")
    ELSE IF full # None
    THEN init_full_name(o, nombre_completo_valido(c, full))
    ELSE [raised |-> NoError,
          obj |-> [o EXCEPT
                     !.name = IF n # None THEN upper(n) ELSE None,
                     !.first_surname = IF a # None THEN upper(a) ELSE None,
                     !.second_surname = IF b # None THEN upper(b) ELSE None]]

\* the name checks of __init__, from "if nombre is not None" on; o holds
\* the fields set so far
init_names(c, n, a, b, full, o) ==
    IF n # None /\ ~nombre_valido(c, n) THEN Raise("CURPNameError")
    ELSE IF a # None /\ ~primer_apellido_valido(c, a)
    THEN Raise("CURPFirstSurnameError")
    ELSE IF b # None /\ ~segundo_apellido_valido(c, b)
    THEN Raise("CURPSecondSurnameError")
    ELSE IF (n = None /\ a = None /\ b = None) /\ full # None
    THEN init_full_name(o, nombre_completo_valido(c, full))
    ELSE [raised |-> NoError,
          obj |-> [o EXCEPT
                     !.name = IF n # None THEN upper(n) ELSE None,
                     !.first_surname = IF a # None THEN upper(a) ELSE None,
                     !.second_surname = IF b # None THEN upper(b) ELSE None]]

\* an __init__ that parses the region before the sex
init_fields_region_first(c, n, a, b, full, birth_date, sex, birth_place) ==
    IF birth_date.error # NoError THEN Raise(birth_date.error)
    ELSE IF birth_place.error # NoError THEN Raise(birth_place.error)
    ELSE IF sex.error # NoError THEN Raise(sex.error)
    ELSE IF ~validate_name_chars(c) THEN Raise("CURPValueError")
    ELSE init_names(c, n, a, b, full,
                    [NoObject EXCEPT !.birth_date = birth_date.value,
                                     !.sex = sex.value,
                                     !.birth_place = birth_place.value])

\* __init__ from "self._parse_birth_date()" on, the three fields parsed
init_fields(c, n, a, b, full, birth_date, sex, birth_place) ==
    IF birth_date.error # NoError THEN Raise(birth_date.error)
    ELSE IF sex.error # NoError THEN Raise(sex.error)
    ELSE IF birth_place.error # NoError THEN Raise(birth_place.error)
    ELSE IF ~validate_name_chars(c) THEN Raise("CURPValueError")
    ELSE init_names(c, n, a, b, full,
                    [NoObject EXCEPT !.birth_date = birth_date.value,
                                     !.sex = sex.value,
                                     !.birth_place = birth_place.value])

\* an __init__ that looks up the characters before it looks at the length
init_characters_first(c, n, a, b, full, current_year) ==
    IF verification_sum(c) = -1 THEN Raise("CURPValueError")
    ELSE IF Len(c) # LENGTH THEN Raise("CURPLengthError")
    ELSE IF ~validate_verify(c) THEN Raise("CURPVerificationError")
    ELSE init_fields(c, n, a, b, full, parse_birth_date(c, current_year),
                     parse_sex(c), parse_region(c))

\* CURP.__init__: the exception it raises or the object it builds
init(c, n, a, b, full, current_year) ==
    IF Len(c) # LENGTH THEN Raise("CURPLengthError")
    ELSE IF verification_sum(c) = -1 THEN Raise("CURPValueError")
    ELSE IF ~validate_verify(c) THEN Raise("CURPVerificationError")
    ELSE init_fields(c, n, a, b, full, parse_birth_date(c, current_year),
                     parse_sex(c), parse_region(c))

----------------------------------------------------------------------------
(* tests/utils.py: how the tests assemble and alter a code                 *)

\* fix_verification
fix_verification(c) ==
    SubSeq(c, 1, Len(c) - 1) \o <<sum_to_verify_digit(verification_sum(c))>>

\* f"{n:02}"
TwoDigits(n) == <<digits[((n \div 10) % 10) + 1], digits[(n % 10) + 1]>>

\* "if censored in altisonantes: if curp[1] in altisonantes[censored]"
censor(start, censored) ==
    IF /\ HasKey(altisonantes, censored)
       /\ In(start[2], Lookup(altisonantes, censored).vowels)
    THEN censored ELSE start

\* build_curp on the features n, f, s of the three words
build_from(n, f, s, date, sex, region) ==
    fix_verification(
        censor(<<f.char, f.vowel, s.char, n.char>>, <<f.char, "X", s.char, n.char>>)
        \o TwoDigits(date.year % 100) \o TwoDigits(date.month)
        \o TwoDigits(date.day) \o <<sex>> \o region
        \o <<f.consonant, s.consonant, n.consonant,
             IF date.year <= 1999 THEN "0" ELSE "A", "V">>)

\* build_curp: the features of the three words are those WordFeatures finds
build_curp(name, first_surname, second_surname, date, sex, region) ==
    build_from(WordFeatures(name, ignored_words, special_chars),
               WordFeatures(first_surname, ignored_words, special_chars),
               WordFeatures(second_surname, ignored_words, special_chars),
               date, sex, region)

\* insert_in_word(word, c, i) for a one-character c
insert_in_word(word, c, i) ==
    IF i < Len(word) THEN [word EXCEPT ![i + 1] = c] ELSE Append(word, c)

\* f"{name} {first_surname} {second_surname}"
full_name(name, first_surname, second_surname) ==
    name \o <<" ">> \o first_surname \o <<" ">> \o second_surname

----------------------------------------------------------------------------
(* The inputs the model draws                                              *)

ANA  == <<"A", "N", "A">>
JOSE == <<"J", "o", "s", "é">>
MA   == <<"M", "A">>
PAZ  == <<"P", "A", "Z">>
BACH == <<"B", "A", "C", "H">>
NYA  == <<"Ñ", "A">>
BECH == <<"B", "E", "C", "H">>
ENYE == <<"Ñ">>
CID  == <<"C", "I", "D">>
DE   == <<"d", "e">>

\* the people whose codes the constructor is tried on
Profiles ==
    { [name |-> ANA, first_surname |-> PAZ, second_surname |-> CID,
       date |-> [year |-> 1956, month |-> 6, day |-> 26],
       sex |-> "M", region |-> <<"D", "F">>],
      [name |-> ANA, first_surname |-> BACH, second_surname |-> CID,
       date |-> [year |-> 2000, month |-> 1, day |-> 1],
       sex |-> "H", region |-> <<"N", "E">>] }

ProfileCurp(p) ==
    build_curp(p.name, p.first_surname, p.second_surname, p.date, p.sex, p.region)

\* the ways a code is damaged: characters written over it, its check digit
\* left wrong, a character dropped or added
Edits ==
    { [kind |-> "set", id |-> "date_letter", chars |-> << <<4, "A">> >>],
      [kind |-> "set", id |-> "month_13", chars |-> << <<6, "1">>, <<7, "3">> >>],
      [kind |-> "set", id |-> "sex", chars |-> << <<10, "X">> >>],
      [kind |-> "set", id |-> "region", chars |-> << <<11, "X">>, <<12, "X">> >>],
      [kind |-> "set", id |-> "vowel", chars |-> << <<1, "B">> >>],
      [kind |-> "set", id |-> "consonant", chars |-> << <<13, "A">> >>],
      [kind |-> "set", id |-> "name_digit", chars |-> << <<3, "5">> >>],
      [kind |-> "set", id |-> "uncensored",
       chars |-> << <<0, "B">>, <<1, "A">>, <<2, "C">>, <<3, "A">> >>],
      [kind |-> "set", id |-> "lowercase", chars |-> << <<5, "a">> >>],
      [kind |-> "set", id |-> "check_enye", chars |-> << <<17, "Ñ">> >>],
      [kind |-> "digit", id |-> "digit", chars |-> <<>>],
      [kind |-> "cut", id |-> "cut", chars |-> <<>>],
      [kind |-> "add", id |-> "add", chars |-> <<>>] }

\* how many of them a code suffers at once
MaxEdits == 2

Tampers == {t \in SUBSET Edits : Cardinality(t) <= MaxEdits}

RECURSIVE SetChars(_, _)
SetChars(c, chars) ==
    IF chars = <<>> THEN c
    ELSE SetChars(insert_in_word(c, chars[1][2], chars[1][1]), Tail(chars))

RECURSIVE SetAll(_, _)
SetAll(c, es) ==
    IF es = {} THEN c
    ELSE LET e == CHOOSE x \in es : \A y \in es : Len(x.chars) >= Len(y.chars)
         IN  SetAll(SetChars(c, e.chars), es \ {e})

\* change_curp: the check digit is corrected when it can be computed
Fixed(c) == IF verification_sum(c) # -1 THEN fix_verification(c) ELSE c

\* a check digit that is not the right one
WrongDigit(c, t) ==
    IF IsDigit(c[Len(c)]) /\ \E e \in t : e.kind = "digit"
    THEN [c EXCEPT ![Len(c)] = digits[((Index(digits, c[Len(c)]) + 1) % 10) + 1]]
    ELSE c

\* the last character dropped
Cut(c, t) ==
    IF \E e \in t : e.kind = "cut" THEN SubSeq(c, 1, Len(c) - 1) ELSE c

\* a character dropped, then a character added
Resized(c, t) ==
    IF \E e \in t : e.kind = "add" THEN Append(Cut(c, t), "0") ELSE Cut(c, t)

\* the code c with the damages t
Tamper(c, t) ==
    Resized(WrongDigit(Fixed(SetAll(c, {e \in t : e.kind = "set"})), t), t)

\* the name arguments a profile is tried with: omitted, right or wrong
NameArgs(p) == {None, p.name, CID}

FirstSurnameArgs(p) == {None, p.first_surname, CID \o <<" ">> \o PAZ}

SecondSurnameArgs(p) == {None, p.second_surname, PAZ}

FullNameArgs(p) ==
    {None, full_name(p.name, p.first_surname, p.second_surname),
     full_name(p.first_surname, p.name, p.second_surname)}

TodayYears == {2026}

NoCall == [method |-> "none", arg |-> <<>>, valid |-> FALSE, names |-> <<>>]

----------------------------------------------------------------------------
(* The constructor on damaged codes and every choice of name arguments     *)

Init ==
    /\ \E p \in Profiles :
         /\ \E t \in Tampers : curp = Tamper(ProfileCurp(p), t)
         /\ nombre \in NameArgs(p)
         /\ primer_apellido \in FirstSurnameArgs(p)
         /\ segundo_apellido \in SecondSurnameArgs(p)
         /\ nombre_completo \in FullNameArgs(p)
    /\ today \in TodayYears
    /\ pc = "new"
    /\ raised = NoError
    /\ obj = NoObject
    /\ call = NoCall

\* CURP(curp, nombre, primer_apellido, segundo_apellido, nombre_completo)
Construct ==
    /\ pc = "new"
    /\ LET r == init(curp, nombre, primer_apellido, segundo_apellido,
                     nombre_completo, today)
       IN  /\ raised' = r.raised
           /\ obj' = r.obj
           /\ pc' = IF r.raised = NoError THEN "constructed" ELSE "raised"
    /\ UNCHANGED <<curp, nombre, primer_apellido, segundo_apellido,
                   nombre_completo, today, call>>

Next == Construct

Spec == Init /\ [][Next]_vars

----------------------------------------------------------------------------
(* The methods of a constructed object on every text of a few words        *)

\* the people whose codes the methods are tried on: the second surname is
\* empty whenever the first is
People ==
    { p \in {ANA, MA} \X {<<>>, PAZ, BACH, NYA, ENYE} \X {<<>>, CID} :
        p[2] = <<>> => p[3] = <<>> }

PersonCurp(p) ==
    build_curp(p[1], p[2], p[3], [year |-> 2000, month |-> 1, day |-> 1],
               "M", <<"D", "F">>)

Vocabulary == {ANA, JOSE, MA, PAZ, BACH, BECH, NYA, CID, DE}

\* how many words a text has at most
MaxWords == 3

WordSeqs == UNION { [1..k -> Vocabulary] : k \in 0..MaxWords }

\* the texts given to the methods: words joined by one space, and the
\* full names of the people as the tests write them
Texts == { join(ws) : ws \in WordSeqs }

FullNames == Texts \cup { full_name(p[1], p[2], p[3]) : p \in People }

InitMethods ==
    /\ \E p \in People : curp = PersonCurp(p)
    /\ nombre = None
    /\ primer_apellido = None
    /\ segundo_apellido = None
    /\ nombre_completo = None
    /\ today \in TodayYears
    /\ pc = "new"
    /\ raised = NoError
    /\ obj = NoObject
    /\ call = NoCall

\* the methods are pure: the object is left as it is, and one call at a
\* time is followed
ObjectUnchanged ==
    UNCHANGED <<curp, nombre, primer_apellido, segundo_apellido,
                nombre_completo, today, pc, raised, obj>>

\* c.nombre_valido(text)
NombreValido ==
    /\ pc = "constructed"
    /\ call = NoCall
    /\ \E text \in Texts :
         call' = [method |-> "nombre_valido", arg |-> text,
                  valid |-> nombre_valido(curp, text), names |-> <<>>]
    /\ ObjectUnchanged

\* c.primer_apellido_valido(text)
PrimerApellidoValido ==
    /\ pc = "constructed"
    /\ call = NoCall
    /\ \E text \in Texts :
         call' = [method |-> "primer_apellido_valido", arg |-> text,
                  valid |-> primer_apellido_valido(curp, text), names |-> <<>>]
    /\ ObjectUnchanged

\* c.segundo_apellido_valido(text)
SegundoApellidoValido ==
    /\ pc = "constructed"
    /\ call = NoCall
    /\ \E text \in Texts :
         call' = [method |-> "segundo_apellido_valido", arg |-> text,
                  valid |-> segundo_apellido_valido(curp, text), names |-> <<>>]
    /\ ObjectUnchanged

\* c.nombre_completo_valido(text)
NombreCompletoValido ==
    /\ pc = "constructed"
    /\ call = NoCall
    /\ \E text \in FullNames :
         call' = [method |-> "nombre_completo_valido", arg |-> text,
                  valid |-> nombre_completo_valido(curp, text).valid,
                  names |-> nombre_completo_valido(curp, text).names]
    /\ ObjectUnchanged

NextMethods ==
    \/ Construct
    \/ NombreValido
    \/ PrimerApellidoValido
    \/ SegundoApellidoValido
    \/ NombreCompletoValido

SpecMethods == InitMethods /\ [][NextMethods]_vars

----------------------------------------------------------------------------
(* The constructor on the codes of people with two surnames, given with a  *)
(* full name of three words or with a first surname                        *)

BCH == <<"B", "C", "H">>

\* name, first surname, second surname; neither surname is the empty string
Families == {ANA} \X {PAZ, BACH} \X {CID, ENYE}

NameWords == {ANA, MA, PAZ, BACH, BCH, BECH, CID, ENYE, DE}

\* ' '.join of three words, the first of one letter at least
ThreeWords ==
    { full_name(w[1], w[2], w[3]) :
        w \in NameWords \X (NameWords \cup {<<>>}) \X (NameWords \cup {<<>>}) }

InitNames ==
    /\ \E p \in Families : curp = PersonCurp(p)
    /\ nombre = None
    /\ segundo_apellido = None
    /\ \/ primer_apellido = None /\ nombre_completo \in ThreeWords
       \/ primer_apellido \in NameWords /\ nombre_completo = None
    /\ today \in TodayYears
    /\ pc = "new"
    /\ raised = NoError
    /\ obj = NoObject
    /\ call = NoCall

SpecNames == InitNames /\ [][Construct]_vars

----------------------------------------------------------------------------
(* WordFeatures on words of letters and on texts of several pieces         *)

\* letters of the alphabet of the tests: upper and lower case, accented, Ñ
Letters == {"A", "é", "Ñ", "ñ", "b", "Z"}

\* how many letters a word has at most
MaxLetters == 3

LetterWords == UNION { [1..k -> Letters] : k \in 0..MaxLetters }

\* the pieces of a compound text: ignored words and others
CompoundPieces == {DE, <<"L", "a">>, PAZ, CID}

RECURSIVE JoinWith(_, _)
\* the pieces ps with the separators ss between them
JoinWith(ps, ss) ==
    IF Len(ps) = 1 THEN ps[1]
    ELSE ps[1] \o <<ss[1]>> \o JoinWith(Tail(ps), Tail(ss))

CompoundTexts ==
    UNION { { JoinWith(ps, ss) : ps \in [1..k -> CompoundPieces],
                                 ss \in [1..(k - 1) ->
                                         {" ", "/", "-", ".", "'", "rsquo"}] } :
            k \in 1..MaxWords }

FeatureTexts == LetterWords \cup CompoundTexts

\* (wf.char, wf.vowel, wf.consonant)
features_tuple(wf) == <<wf.char, wf.vowel, wf.consonant>>

InitFeatures ==
    /\ curp = PersonCurp(<<ANA, PAZ, CID>>)
    /\ nombre = None
    /\ primer_apellido = None
    /\ segundo_apellido = None
    /\ nombre_completo = None
    /\ today \in TodayYears
    /\ pc = "new"
    /\ raised = NoError
    /\ obj = NoObject
    /\ call = NoCall

\* WordFeatures(text, CURP._ignored_words, CURP._special_chars)
NewWordFeatures ==
    /\ call = NoCall
    /\ \E text \in FeatureTexts :
         call' = [method |-> "WordFeatures", arg |-> text, valid |-> TRUE,
                  names |-> features_tuple(
                      WordFeatures(text, ignored_words, special_chars))]
    /\ ObjectUnchanged

SpecFeatures == InitFeatures /\ [][NewWordFeatures]_vars

----------------------------------------------------------------------------
(* The constructor on codes whose date, sex and homoclave are replaced     *)

\* two characters for the year, the month and the day: numbers in and out of
\* the calendar, and characters that are not digits
YearChars ==
    { <<"0", "0">>, <<"0", "4">>, <<"0", "5">>, <<"2", "6">>, <<"2", "7">>,
      <<"5", "0">>, <<"9", "9">>, <<"0", "A">> }

MonthChars ==
    { <<"0", "0">>, <<"0", "1">>, <<"0", "2">>, <<"0", "4">>, <<"1", "2">>,
      <<"1", "3">>, <<"1", "B">> }

DayChars ==
    { <<"0", "0">>, <<"0", "1">>, <<"2", "8">>, <<"2", "9">>, <<"3", "0">>,
      <<"3", "1">>, <<"3", "2">>, <<"A", "1">> }

SexChars == {"H", "M", "X", "1"}

\* a digit for births up to 1999, a letter from 2000 on
Homoclaves == {"0", "A"}

\* the years date.today() is read in
FieldYears == {1990, 2026, 2099, 2100}

\* change_curp(build_curp(...), date = d, sex = sx) with the homoclave hc
FieldCurp(d, sx, hc) ==
    fix_verification(SubSeq(PersonCurp(<<ANA, PAZ, CID>>), 1, YEAR_0) \o d
                     \o <<sx>>
                     \o SubSeq(PersonCurp(<<ANA, PAZ, CID>>), REGION_0 + 1,
                               HOMONYMY)
                     \o <<hc, "0">>)

InitFields ==
    /\ \E yy \in YearChars, mm \in MonthChars, dd \in DayChars,
          sx \in SexChars, hc \in Homoclaves :
         curp = FieldCurp(yy \o mm \o dd, sx, hc)
    /\ nombre = None
    /\ primer_apellido = None
    /\ segundo_apellido = None
    /\ nombre_completo = None
    /\ today \in FieldYears
    /\ pc = "new"
    /\ raised = NoError
    /\ obj = NoObject
    /\ call = NoCall

SpecFields == InitFields /\ [][Construct]_vars

----------------------------------------------------------------------------
(* The constructor on codes whose region or name characters are replaced   *)

\* insert_in_word(word, c, i) for a c of any length
insert_chars(word, c, i) ==
    [k \in 1..Len(word) |->
        IF k - 1 >= i /\ k - 1 < i + Len(c) THEN c[k - i] ELSE word[k]]

\* change_curp(curp, region = r) for every r of two digits or uppercase
\* letters
RegionChanges(c) ==
    { Fixed(insert_chars(c, <<a, b>>, REGION_0)) :
        a \in Range(CHARSET), b \in Range(CHARSET) }

\* change_curp(curp, ch, i) for every name offset and every digit or
\* uppercase letter
CharChanges(c) ==
    { Fixed(insert_in_word(c, ch, i)) : ch \in Range(CHARSET),
        i \in {SURNAME_A_CHAR, SURNAME_A_VOWEL, SURNAME_B_CHAR, NAME_CHAR,
              SURNAME_A_CONSONANT, SURNAME_B_CONSONANT, NAME_CONSONANT} }

\* change_curp(curp, chars = inconvenient)
InconvenientChanges(c) ==
    { Fixed(insert_chars(c, w, SURNAME_A_CHAR)) : w \in inc_uncensored }

ChangedCurps(c) ==
    {c} \cup RegionChanges(c) \cup CharChanges(c) \cup InconvenientChanges(c)

\* nombre, primer_apellido and nombre_completo: none, a given name or a
\* first surname alone, or the full name
NameChoices ==
    { <<None, None, None>>, <<CID, None, None>>, <<None, BACH, None>>,
      <<None, None, full_name(ANA, BACH, CID)>> }

InitChars ==
    /\ \E p \in Families : curp \in ChangedCurps(PersonCurp(p))
    /\ \E n \in NameChoices :
         /\ nombre = n[1]
         /\ primer_apellido = n[2]
         /\ nombre_completo = n[3]
    /\ segundo_apellido = None
    /\ today \in TodayYears
    /\ pc = "new"
    /\ raised = NoError
    /\ obj = NoObject
    /\ call = NoCall

SpecChars == InitChars /\ [][Construct]_vars

----------------------------------------------------------------------------
(* nombre_completo_valido followed word by word                            *)

ScanPeople ==
    { <<ANA, PAZ, CID>>, <<ANA, PAZ, <<>>>>, <<ANA, <<>>, <<>>>>,
      <<MA, PAZ, CID>>, <<ANA, BACH, CID>>, <<ANA, ENYE, CID>> }

\* names longer than the bound, with common first names, runs of ignored
\* words and words after the second surname
LongNames ==
    { join(<<MA, JOSE, ANA, PAZ, CID>>),
      join(<<JOSE, DE, ANA, DE, <<"l", "a">>, PAZ, CID>>),
      join(<<ANA, DE, DE, PAZ, DE, CID, DE>>),
      join(<<DE, ANA, PAZ, CID, PAZ, ANA, DE>>),
      join(<<ANA, PAZ, CID, CID, CID, CID>>),
      <<" ">> \o ANA \o <<" ", " ">> \o PAZ \o <<" ">> \o CID \o <<" ">> }

ScanTexts ==
    { join(ws) : ws \in UNION { [1..k -> {ANA, MA, JOSE, PAZ, CID, DE}] : k \in 0..MaxWords } }
      \cup LongNames

InitScan ==
    /\ \E p \in ScanPeople : curp = PersonCurp(p)
    /\ nombre = None
    /\ primer_apellido = None
    /\ segundo_apellido = None
    /\ nombre_completo = None
    /\ today \in TodayYears
    /\ pc = "new"
    /\ raised = NoError
    /\ obj = NoObject
    /\ call = NoCall

\* c.nombre_completo_valido(text) is entered: the locals before the loop
ScanCall ==
    /\ pc = "constructed"
    /\ call = NoCall
    /\ \E text \in ScanTexts :
         call' = [method |-> "nombre_completo_valido", arg |-> text,
                  step |-> "loop", words |-> split(text), word |-> <<>>,
                  prev |-> scan_start, st |-> scan_start,
                  valid |-> FALSE, names |-> <<>>]
    /\ ObjectUnchanged

\* one iteration of "for word in nombre_completo.split()"
ScanWord ==
    /\ call.method = "nombre_completo_valido"
    /\ call.step = "loop"
    /\ call.words # <<>>
    /\ ~call.st.returned
    /\ call' = [call EXCEPT !.words = Tail(@),
                            !.word = Head(call.words),
                            !.prev = call.st,
                            !.st = scan_word(curp, call.st, Head(call.words))]
    /\ ObjectUnchanged

\* the call returns: from inside the loop, or after it
ScanReturn ==
    /\ call.method = "nombre_completo_valido"
    /\ call.step = "loop"
    /\ call.words = <<>> \/ call.st.returned
    /\ call' = [call EXCEPT !.step = "returned",
                            !.valid = scan_result(curp, call.st).valid,
                            !.names = scan_result(curp, call.st).names]
    /\ ObjectUnchanged

NextScan ==
    \/ Construct
    \/ ScanCall
    \/ ScanWord
    \/ ScanReturn

SpecScan == InitScan /\ [][NextScan]_vars

----------------------------------------------------------------------------
(* The two static methods of the checksum                                  *)

\* the characters at the ends of the three runs of the charset
SumChars == {"0", "9", "A", "N", "O", "Z"}

ZeroCode == [i \in 1..LENGTH |-> "0"]

\* codes with one character that differs from a code of zeros or from a
\* person's code, a character outside the charset included
SumCodes ==
    {ZeroCode, [i \in 1..LENGTH |-> "Z"]}
    \cup { insert_in_word(b, ch, i) :
             b \in {ZeroCode, PersonCurp(<<ANA, PAZ, CID>>)},
             ch \in SumChars \cup {"Ñ", "a"},
             i \in 0..(LENGTH - 1) }

\* the sums _sum_to_verify_digit is tried on, besides those of the codes
MaxSum == 60

InitSum ==
    /\ curp \in SumCodes
    /\ nombre = None
    /\ primer_apellido = None
    /\ segundo_apellido = None
    /\ nombre_completo = None
    /\ today \in TodayYears
    /\ pc = "new"
    /\ raised = NoError
    /\ obj = NoObject
    /\ call = NoCall

\* CURP._verification_sum(curp)
VerificationSum ==
    /\ call = NoCall
    /\ call' = [method |-> "_verification_sum", arg |-> curp,
                valid |-> verification_sum(curp) # -1, names |-> <<>>,
                value |-> verification_sum(curp)]
    /\ ObjectUnchanged

\* CURP._sum_to_verify_digit(s)
SumToVerifyDigit ==
    /\ call = NoCall
    /\ \E s \in (0..MaxSum) \cup ({verification_sum(curp)} \ {-1}) :
         call' = [method |-> "_sum_to_verify_digit", arg |-> s,
                  valid |-> TRUE, names |-> <<>>,
                  value |-> sum_to_verify_digit(s)]
    /\ ObjectUnchanged

NextSum ==
    \/ VerificationSum
    \/ SumToVerifyDigit

SpecSum == InitSum /\ [][NextSum]_vars

----------------------------------------------------------------------------
(* The claims                                                              *)

\* the characters 0-9 and A-Z
Alnum == Range(digits) \cup Range(ascii_uppercase)

\* C1: a code whose length is not 18 makes the constructor raise
\* CURPLengthError, whatever its characters and whatever the name arguments
C1_LengthFirst ==
    (pc # "new" /\ Len(curp) # 18) => (pc = "raised" /\ raised = "CURPLengthError")

\* a refused code of the wrong length that also holds a character outside the
\* charset and comes with a given name that does not match
C1_Witness ==
    /\ pc = "raised"
    /\ Len(curp) = 17
    /\ \E i \in 1..Len(curp) : curp[i] \notin Alnum
    /\ nombre = CID

\* the code c with the digit d as its last character
WithLast(c, d) == [c EXCEPT ![Len(c)] = d]

\* what CURP(c) does when no name is given
Bare(c) == init(c, None, None, None, None, today).raised

\* the code has 18 characters of the charset and, its check digit apart,
\* passes every check of the constructor
OtherwiseValid ==
    /\ Len(curp) = 18
    /\ \A i \in 1..Len(curp) : curp[i] \in Alnum
    /\ init_fields(curp, None, None, None, None, parse_birth_date(curp, today),
                   parse_sex(curp), parse_region(curp)).raised = NoError

\* C2: of the ten codes that differ from an otherwise valid code in the last
\* character only, a digit, exactly one is constructed and the other nine
\* raise CURPVerificationError
C2_OneDigit ==
    (pc # "new" /\ OtherwiseValid) =>
        /\ Cardinality({d \in Range(digits) : Bare(WithLast(curp, d)) = NoError}) = 1
        /\ \A d \in Range(digits) :
             Bare(WithLast(curp, d)) \in {NoError, "CURPVerificationError"}
        /\ (curp[18] \in Range(digits) /\ Bare(curp) # NoError)
              => raised = "CURPVerificationError"

\* an otherwise valid code refused for its check digit
C2_Witness ==
    /\ pc = "raised"
    /\ OtherwiseValid
    /\ curp[18] \in Range(digits)
    /\ raised = "CURPVerificationError"

\* the rules of C3, in its order; each is read on a code of 18 characters
BadLength == Len(curp) # 18

BadChecksum ==
    /\ verification_sum(curp) # -1
    /\ curp[18] # sum_to_verify_digit(verification_sum(curp))

BadDate == parse_birth_date(curp, today).error # NoError

BadSex == curp[11] \notin {"H", "M"}

BadRegion == ~HasKey(estados, SubSeq(curp, 12, 13))

BadNameChars == ~validate_name_chars(curp)

BadFields ==
    \/ verification_sum(curp) = -1
    \/ BadDate \/ BadSex \/ BadRegion \/ BadNameChars

BadName == nombre # None /\ ~nombre_valido(curp, nombre)

BadFirstSurname ==
    primer_apellido # None /\ ~primer_apellido_valido(curp, primer_apellido)

BadSecondSurname ==
    segundo_apellido # None /\ ~segundo_apellido_valido(curp, segundo_apellido)

BadFullName ==
    nombre_completo # None /\ ~nombre_completo_valido(curp, nombre_completo).valid

\* the places, in the order of C3, of the rules the input violates
Violated ==
    IF BadLength THEN {1}
    ELSE {k \in 1..7 :
            \/ k = 2 /\ BadChecksum
            \/ k = 3 /\ BadFields
            \/ k = 4 /\ BadName
            \/ k = 5 /\ BadFirstSurname
            \/ k = 6 /\ BadSecondSurname
            \/ k = 7 /\ BadFullName}

First(S) == CHOOSE k \in S : \A j \in S : k <= j

\* the errors of the rule at place k
ErrorsOf(k) ==
    CASE k = 1 -> {"CURPLengthError"}
      [] k = 2 -> {"CURPVerificationError"}
      [] k = 3 -> {"CURPValueError", "CURPDateError", "CURPSexError",
                   "CURPRegionError"}
      [] k = 4 -> {"CURPNameError"}
      [] k = 5 -> {"CURPFirstSurnameError"}
      [] k = 6 -> {"CURPSecondSurnameError"}
      [] k = 7 -> {"CURPFullNameError"}

\* among the field rules, in the order date, sex, region, name characters
FieldError ==
    IF verification_sum(curp) = -1 THEN {"CURPValueError"}
    ELSE IF BadDate THEN {"CURPValueError", "CURPDateError"}
    ELSE IF BadSex THEN {"CURPSexError"}
    ELSE IF BadRegion THEN {"CURPRegionError"}
    ELSE {"CURPValueError"}

\* C3: when the input violates several rules, the error raised is that of
\* the first violated rule in the order length, checksum, field characters
\* (date, sex, region, name characters), given name, first surname, second
\* surname, full name
C3_FirstViolatedRule ==
    (pc # "new" /\ Cardinality(Violated) >= 2) =>
        /\ pc = "raised"
        /\ raised \in ErrorsOf(First(Violated))
        /\ First(Violated) = 3 => raised \in FieldError

\* a code with a wrong check digit and a wrong sex, given with a name that
\* does not match: the checksum error is the one raised
C3_Witness ==
    /\ pc = "raised"
    /\ Violated = {2, 3, 4}
    /\ BadSex
    /\ raised = "CURPVerificationError"

\* C4: a code of 18 characters one of which is not in 0-9 or A-Z, at any
\* offset, raises a CURPValueError that is neither a CURPVerificationError
\* nor a CURPLengthError
C4_InvalidCharacters ==
    (pc # "new" /\ Len(curp) = 18 /\ \E i \in 1..18 : curp[i] \notin Alnum) =>
        /\ pc = "raised"
        /\ IsInstance(raised, "CURPValueError")
        /\ ~IsInstance(raised, "CURPVerificationError")
        /\ ~IsInstance(raised, "CURPLengthError")

\* the character outside the charset stands at the checksum offset
C4_Witness ==
    /\ pc = "raised"
    /\ Len(curp) = 18
    /\ curp[18] \notin Alnum
    /\ \A i \in 1..17 : curp[i] \in Alnum
    /\ raised = "CURPValueError"

\* the features of a text, as the methods compute them
Features(text) == WordFeatures(text, ignored_words, special_chars)

\* the call followed is one of the method m
Called(m) == pc = "constructed" /\ call.method = m

\* C5: for the code built from a one-word given name, first surname and
\* second surname, none an ignored word, the surnames possibly empty (the
\* second whenever the first is), nombre_completo_valido of
\* "<name> <first> <second>" returns the tuple (name, first, second)
C5_FullNameOfThePerson ==
    Called("nombre_completo_valido") =>
        \A p \in People :
            (call.arg = full_name(p[1], p[2], p[3]) /\ curp = PersonCurp(p))
                => (call.valid /\ call.names = p)

\* the full names of a person with both surnames and of one with none
C5_Witness ==
    /\ Called("nombre_completo_valido")
    /\ \/ /\ curp = PersonCurp(<<ANA, BACH, CID>>)
          /\ call.arg = full_name(ANA, BACH, CID)
          /\ call.names = <<ANA, BACH, CID>>
       \/ /\ curp = PersonCurp(<<MA, <<>>, <<>>>>)
          /\ call.arg = full_name(MA, <<>>, <<>>)
          /\ call.names = <<MA, <<>>, <<>>>>

\* the state the scan of the full name ends in
EndState == scan(curp, call.arg).state

\* the second-surname character and consonant of the code are both X
SecondSurnameBlank ==
    At(curp, SURNAME_B_CHAR) = "X" /\ At(curp, SURNAME_B_CONSONANT) = "X"

\* C6: nombre_completo_valido returns a tuple exactly when the scan ends in
\* SECOND_SURNAME, or in FIRST_SURNAME with the characters of the code at
\* offsets 2 and 14 both X, or in GIVEN_NAMES with a code that admits an
\* empty first surname and an empty second surname; otherwise, the initial
\* state included, it returns False
C6_EndOfScan ==
    Called("nombre_completo_valido") =>
        /\ call.valid <=>
             \/ EndState = "SECOND_SURNAME"
             \/ EndState = "FIRST_SURNAME" /\ SecondSurnameBlank
             \/ /\ EndState = "GIVEN_NAMES"
                /\ primer_apellido_valido(curp, <<>>)
                /\ SecondSurnameBlank
        /\ EndState = "NONE" => ~call.valid

\* a name without surnames accepted by the cascade
C6_Witness ==
    /\ Called("nombre_completo_valido")
    /\ EndState = "GIVEN_NAMES"
    /\ call.valid
    /\ call.names[2] = <<>>

\* the name whose features C7 compares: the first piece is removed when there
\* are two pieces or more and it is a common first name
Candidate(name) ==
    IF /\ Len(split(name)) >= 2
       /\ unidecode(upper(split(name)[1])) \in
            { <<"M", "A", "R", "I", "A">>, <<"M", "A">>, <<"M", "A", ".">>,
              <<"J", "O", "S", "E">>, <<"J">>, <<"J", ".">> }
    THEN join(Tail(split(name)))
    ELSE name

\* C7: nombre_valido(name) is true iff the features of the candidate have
\* the character of the code at offset 3 and the consonant at offset 15; the
\* candidate is the name without its first piece when the name has two
\* pieces or more and the first is one of MARIA, MA, MA., JOSE, J, J., and
\* the name itself otherwise
C7_GivenName ==
    Called("nombre_valido") =>
        (call.valid <=>
            /\ Features(Candidate(call.arg)).char = curp[4]
            /\ Features(Candidate(call.arg)).consonant = curp[16])

\* a common first name dropped before a name that matches, and a common
\* first name that stands alone and is kept
C7_Witness ==
    /\ Called("nombre_valido")
    /\ call.valid
    /\ \/ call.arg = JOSE \o <<" ">> \o ANA
       \/ call.arg = MA

\* the vowels the table gives for the start of the code, none when the start
\* is not in the table
TableVowels ==
    UNION { Range(altisonantes[k].vowels) :
              k \in {j \in 1..Len(altisonantes) :
                       altisonantes[j].key = SubSeq(curp, 1, 4)} }

C9_SecondSurname ==
    Called("segundo_apellido_valido") =>
        /\ call.valid <=>
             /\ Features(call.arg).char = curp[3]
             /\ Features(call.arg).consonant = curp[15]
        /\ call.arg = <<>> => (call.valid <=> (curp[3] = "X" /\ curp[15] = "X"))

\* the empty second surname accepted
C9_Witness ==
    /\ Called("segundo_apellido_valido")
    /\ call.arg = <<>>
    /\ call.valid

\* C10 as it is stated: primer_apellido_valido('') is true whenever the
\* characters of the code at offsets 0 and 13 are both X
C10_AsStated ==
    (Called("primer_apellido_valido") /\ call.arg = <<>>
        /\ curp[1] = "X" /\ curp[14] = "X")
            => call.valid

\* C10: primer_apellido_valido('') is true whenever the characters of the
\* code at offsets 0, 1 and 13 (first-surname character, vowel and
\* consonant) are all X
C10_EmptyFirstSurname ==
    (Called("primer_apellido_valido") /\ call.arg = <<>>
        /\ curp[1] = "X" /\ curp[2] = "X" /\ curp[14] = "X")
            => call.valid

\* the empty first surname accepted
C10_Witness ==
    /\ Called("primer_apellido_valido")
    /\ call.arg = <<>>
    /\ curp[1] = "X" /\ curp[2] = "X" /\ curp[14] = "X"
    /\ call.valid

\* FeaturedWord.loosely_eq of the tests: same character and consonant
LooselyEq(f, g) == f.char = g.char /\ f.consonant = g.consonant

\* FeaturedWord.__eq__ of the tests: same character, vowel and consonant
SameFeatures(f, g) == LooselyEq(f, g) /\ f.vowel = g.vowel

\* the words do not all have the features of the names of the person p
NamesDifferent(p, w1, w2, w3) ==
    \/ ~LooselyEq(Features(w1), Features(p[1]))
    \/ ~SameFeatures(Features(w2), Features(p[2]))
    \/ ~LooselyEq(Features(w3), Features(p[3]))

\* C11: for a code built from two surnames that are not empty strings and
\* three words w1 w2 w3 of which w1 has not the character and consonant of
\* the given name, or w2 not the character, vowel and consonant of the first
\* surname, or w3 not the character and consonant of the second surname,
\* CURP(code, nombre_completo = 'w1 w2 w3') raises CURPFullNameError
C11_AsStated ==
    (pc # "new" /\ nombre_completo # None) =>
        \A w1 \in NameWords : \A w2, w3 \in NameWords \cup {<<>>} :
            nombre_completo = full_name(w1, w2, w3) =>
                \A p \in Families :
                    (curp = PersonCurp(p) /\ NamesDifferent(p, w1, w2, w3))
                        => raised = "CURPFullNameError"

\* C12: for a code built from a name and two surnames, censored when its
\* first four letters spell an inconvenient word, and a single word whose
\* character, vowel and consonant are not all those of the first surname the
\* code was built from, primer_apellido_valido(word) is False and
\* CURP(code, primer_apellido = word) raises CURPFirstSurnameError
C12_AsStated ==
    (pc # "new" /\ primer_apellido # None) =>
        \A p \in Families :
            (curp = PersonCurp(p)
                /\ ~SameFeatures(Features(primer_apellido), Features(p[2])))
                    => /\ ~primer_apellido_valido(curp, primer_apellido)
                       /\ raised = "CURPFirstSurnameError"

\* one of the three name parts is given
PartSupplied ==
    nombre # None \/ primer_apellido # None \/ segundo_apellido # None

\* what the object keeps of a name part
Stored(part) == IF part = None THEN None ELSE upper(part)

\* C13: when nombre, primer_apellido or segundo_apellido is given,
\* nombre_completo is ignored: the outcome is that of the same call without
\* it and is never CURPFullNameError, the parts given are the ones validated
\* and stored, and a part not given stays None; when none is given and
\* nombre_completo is, the three name fields come from its tokenization
C13_PartsBeforeFullName ==
    pc # "new" =>
        /\ PartSupplied =>
             /\ raised # "CURPFullNameError"
             /\ raised = init(curp, nombre, primer_apellido, segundo_apellido,
                              None, today).raised
             /\ nombre = None => raised # "CURPNameError"
             /\ primer_apellido = None => raised # "CURPFirstSurnameError"
             /\ segundo_apellido = None => raised # "CURPSecondSurnameError"
             /\ pc = "constructed" =>
                  /\ obj.name = Stored(nombre)
                  /\ obj.first_surname = Stored(primer_apellido)
                  /\ obj.second_surname = Stored(segundo_apellido)
        /\ (~PartSupplied /\ nombre_completo # None /\ pc = "constructed") =>
             /\ nombre_completo_valido(curp, nombre_completo).valid
             /\ obj.name =
                  upper(nombre_completo_valido(curp, nombre_completo).names[1])
             /\ obj.first_surname =
                  upper(nombre_completo_valido(curp, nombre_completo).names[2])
             /\ obj.second_surname =
                  upper(nombre_completo_valido(curp, nombre_completo).names[3])
             /\ None \notin {obj.name, obj.first_surname, obj.second_surname}

\* an object built from a given name alone although the full name that came
\* with it does not match the code
C13_Witness ==
    /\ pc = "constructed"
    /\ nombre # None
    /\ primer_apellido = None
    /\ segundo_apellido = None
    /\ nombre_completo # None
    /\ ~nombre_completo_valido(curp, nombre_completo).valid
    /\ obj.name = upper(nombre)
    /\ obj.first_surname = None

\* a letter upper-cased and without its diacritic, Ñ counting as X
Folded(c) ==
    CASE c \in {"A"} -> "A"
      [] c \in {"é"} -> "E"
      [] c \in {"Ñ", "ñ"} -> "X"
      [] c \in {"b"} -> "B"
      [] c \in {"Z"} -> "Z"

\* the first letter after the first one that is a vowel (or, for FALSE, that
\* is none), folded; X when there is none
FirstInner(w, vowel) ==
    LET inner == {i \in 2..Len(w) :
                    (Folded(w[i]) \in {"A", "E", "I", "O", "U"}) = vowel}
    IN  IF inner = {} THEN "X"
        ELSE Folded(w[CHOOSE i \in inner : \A j \in inner : i <= j])

\* C14: for a single word of letters WordFeatures gives char = the first
\* letter upper-cased and folded, vowel = the first of A, E, I, O, U after the
\* first letter, consonant = the first consonant after the first letter, X
\* standing for what is absent; the empty text gives (X, X, X), a word of one
\* letter gives vowel = consonant = X, and Ñ counts as X wherever it stands
C14_SingleWord ==
    (call.method = "WordFeatures" /\ call.arg \in LetterWords) =>
        /\ call.names[1] = IF call.arg = <<>> THEN "X" ELSE Folded(call.arg[1])
        /\ call.names[2] = FirstInner(call.arg, TRUE)
        /\ call.names[3] = FirstInner(call.arg, FALSE)
        /\ call.arg = <<>> => call.names = <<"X", "X", "X">>
        /\ Len(call.arg) = 1 => (call.names[2] = "X" /\ call.names[3] = "X")

\* Ñ as first letter and as internal consonant, an accented vowel between
C14_Witness ==
    /\ call.method = "WordFeatures"
    /\ call.arg = <<"Ñ", "é", "ñ">>
    /\ call.names = <<"X", "E", "X">>

RECURSIVE PiecesFrom(_, _, _)
\* the pieces of s from offset i on, cut at spaces and special characters
PiecesFrom(s, i, cur) ==
    IF i > Len(s) THEN (IF cur = <<>> THEN <<>> ELSE <<cur>>)
    ELSE IF s[i] \in {" ", "/", "-", ".", "'", "rsquo"}
         THEN (IF cur = <<>> THEN <<>> ELSE <<cur>>) \o PiecesFrom(s, i + 1, <<>>)
         ELSE PiecesFrom(s, i + 1, Append(cur, s[i]))

\* the piece is one of the ignored words, whatever its case
IsIgnored(w) == unidecode(upper(w)) \in ignored_words

\* the first piece that is not an ignored word, the last piece when all
\* before it are
FirstRemaining(ps) ==
    IF \E i \in 1..(Len(ps) - 1) : ~IsIgnored(ps[i])
    THEN ps[CHOOSE i \in 1..(Len(ps) - 1) :
              /\ ~IsIgnored(ps[i])
              /\ \A j \in 1..(i - 1) : IsIgnored(ps[j])]
    ELSE ps[Len(ps)]

\* C15: WordFeatures cuts the text at special characters and spaces, drops
\* the pieces that are ignored words, the last piece excepted, and takes the
\* three features from the first piece that remains; a text of ignored words
\* only is analysed through its last word, and ignored words before a word
\* or words after it leave the features of that word as they are
C15_FirstRemainingPiece ==
    (call.method = "WordFeatures" /\ call.arg \in CompoundTexts) =>
        /\ call.names =
             features_tuple(Features(FirstRemaining(PiecesFrom(call.arg, 1, <<>>))))
        /\ (\A i \in 1..Len(PiecesFrom(call.arg, 1, <<>>)) :
               IsIgnored(PiecesFrom(call.arg, 1, <<>>)[i]))
             => call.names[1] =
                  upper(PiecesFrom(call.arg, 1, <<>>)
                            [Len(PiecesFrom(call.arg, 1, <<>>))])[1]

\* ignored words only, the last one analysed; an ignored word before a word
\* and a word after it
C15_Witness ==
    /\ call.method = "WordFeatures"
    /\ \/ /\ call.arg = DE \o <<"-">> \o <<"L", "a">>
          /\ call.names = <<"L", "A", "X">>
       \/ /\ call.arg = DE \o <<"rsquo">> \o PAZ \o <<" ">> \o CID
          /\ call.names = <<"P", "A", "Z">>

\* the two-digit year, month and day of the code, -1 where not a number
CodeYear == Int2(At(curp, YEAR_0), At(curp, YEAR_1))

CodeMonth == Int2(At(curp, MONTH_0), At(curp, MONTH_1))

CodeDay == Int2(At(curp, DAY_0), At(curp, DAY_1))

DateNumeric == CodeYear # -1 /\ CodeMonth # -1 /\ CodeDay # -1

DigitHomoclave == IsDigit(At(curp, HOMONYMY))

\* the date a code is built from: 19yy under a digit homoclave, 20yy under a
\* letter
BuiltDate ==
    [year |-> (IF DigitHomoclave THEN 1900 ELSE 2000) + CodeYear,
     month |-> CodeMonth, day |-> CodeDay]

\* the Gregorian calendar, written out month by month
MonthLengths(y) ==
    <<31, IF y % 400 = 0 \/ (y % 4 = 0 /\ y % 100 # 0) THEN 29 ELSE 28,
      31, 30, 31, 30, 31, 31, 30, 31, 30, 31>>

OnCalendar(d) ==
    /\ d.month \in 1..12
    /\ d.day >= 1
    /\ d.day <= MonthLengths(d.year)[d.month]

BuiltDateExists == DateNumeric /\ OnCalendar(BuiltDate)

SexGiven == At(curp, SEX) \in {"H", "M"}

\* C16 as stated: the year is 1900 + yy under a digit homoclave and 2000 or
\* later under a letter, and a code built from a date of 1900 to 2099 gives
\* that date back, whatever today's date is
C16_AsStated ==
    pc # "new" =>
        /\ (pc = "constructed" /\ DigitHomoclave) =>
             obj.birth_date.year = 1900 + CodeYear
        /\ (pc = "constructed" /\ ~DigitHomoclave) =>
             obj.birth_date.year >= 2000
        /\ (BuiltDateExists /\ SexGiven) =>
             pc = "constructed" /\ obj.birth_date = BuiltDate

\* C16: the birth year is 1900 + yy whenever the homoclave is a digit,
\* whatever today's date is, and is 2000 or later, never 19yy, whenever the
\* homoclave is a letter and today's year is 2000 or later; while today's
\* year is between 2000 and 2099, a code built from a date of 1900 to 2099
\* (digit homoclave up to 1999, letter from 2000 on) gives that date back
C16_CenturyOfTheHomoclave ==
    pc # "new" =>
        /\ (pc = "constructed" /\ DigitHomoclave) =>
             obj.birth_date.year = 1900 + CodeYear
        /\ (pc = "constructed" /\ ~DigitHomoclave /\ today >= 2000) =>
             /\ obj.birth_date.year >= 2000
             /\ obj.birth_date.year \div 100 # 19
        /\ (BuiltDateExists /\ SexGiven /\ today \in 2000..2099) =>
             pc = "constructed" /\ obj.birth_date = BuiltDate

\* year 05 under a digit homoclave read in 2026: 1905, although 2005 is past
C16_Witness ==
    /\ pc = "constructed"
    /\ today = 2026
    /\ DigitHomoclave
    /\ CodeYear = 5
    /\ obj.birth_date.year = 1905

\* one of the six date characters is not a digit
DateWithLetter == ~DateNumeric

\* C17 as stated: a year, month or day that is not a number makes the
\* birth-date parsing fail with CURPDateError
C17_AsStated ==
    (pc # "new" /\ DateWithLetter) => raised = "CURPDateError"

\* C17: a year, month or day that is not a number makes the birth-date
\* parsing fail with a plain CURPValueError, of none of its subclasses
C17_PlainValueError ==
    (pc # "new" /\ DateWithLetter) =>
        /\ parse_birth_date(curp, today).error = "CURPValueError"
        /\ raised = "CURPValueError"

\* month 1B in a code that is sound otherwise
C17_Witness ==
    /\ pc = "raised"
    /\ raised = "CURPValueError"
    /\ CodeMonth = -1
    /\ CodeYear # -1
    /\ CodeDay # -1
    /\ SexGiven

\* C18: a valid code whose six date characters are replaced by digits and
\* uppercase letters, one of them at least not a digit, and whose check
\* digit is recomputed, is refused with a CURPValueError that is neither a
\* CURPDateError nor a CURPVerificationError
C18_NeitherDateNorVerification ==
    (pc # "new" /\ \E i \in YEAR_0..DAY_1 : ~IsDigit(At(curp, i))) =>
        /\ pc = "raised"
        /\ IsInstance(raised, "CURPValueError")
        /\ ~IsInstance(raised, "CURPDateError")
        /\ ~IsInstance(raised, "CURPVerificationError")

\* day A1 in a code whose check digit matches
C18_Witness ==
    /\ pc = "raised"
    /\ ~IsDigit(At(curp, DAY_0))
    /\ validate_verify(curp)
    /\ IsInstance(raised, "CURPValueError")
    /\ raised \notin {"CURPDateError", "CURPVerificationError"}

\* C19 as stated: a code whose date digits are replaced (check digit
\* recomputed) raises CURPDateError when 19yy-mm-dd under a digit homoclave,
\* 20yy-mm-dd under a letter, is not a calendar date, and raises no date
\* error when it is one
C19_AsStated ==
    (pc # "new" /\ DateNumeric) =>
        /\ ~BuiltDateExists => raised = "CURPDateError"
        /\ BuiltDateExists => raised # "CURPDateError"

\* C19: a code whose date digits are replaced (check digit recomputed)
\* raises CURPDateError when 19yy-mm-dd under a digit homoclave, 20yy-mm-dd
\* under a letter, is not a calendar date; when that date exists and today's
\* year is between 1900 and 2099, no date error is raised
C19_NonexistentDates ==
    (pc # "new" /\ DateNumeric) =>
        /\ ~BuiltDateExists => raised = "CURPDateError"
        /\ (BuiltDateExists /\ today \in 1900..2099) =>
             raised # "CURPDateError"

\* 29 February 1900, which the digit homoclave makes of 000229
C19_Witness ==
    /\ pc = "raised"
    /\ raised = "CURPDateError"
    /\ DigitHomoclave
    /\ CodeYear = 0
    /\ CodeMonth = 2
    /\ CodeDay = 29

\* C20: a code of 18 characters whose check digit matches and whose date is
\* valid gives sexo = 1 for H at offset 10, sexo = 2 for M, and raises
\* CURPSexError for any other character there; the object is built when the
\* region and the name characters are sound and no name is to be compared
C20_SexOfTheCode ==
    (/\ pc # "new"
     /\ Len(curp) = LENGTH
     /\ verification_sum(curp) # -1
     /\ validate_verify(curp)
     /\ parse_birth_date(curp, today).error = NoError) =>
        /\ At(curp, SEX) = "H" =>
             /\ raised # "CURPSexError"
             /\ pc = "constructed" => obj.sex = 1
        /\ At(curp, SEX) = "M" =>
             /\ raised # "CURPSexError"
             /\ pc = "constructed" => obj.sex = 2
        /\ At(curp, SEX) \notin {"H", "M"} => raised = "CURPSexError"
        /\ (At(curp, SEX) \in {"H", "M"} /\ parse_region(curp).error = NoError
              /\ validate_name_chars(curp) /\ ~PartSupplied
              /\ nombre_completo = None) => pc = "constructed"

\* a man born on a valid date
C20_Witness ==
    /\ pc = "constructed"
    /\ At(curp, SEX) = "H"
    /\ obj.sex = 1
    /\ validate_verify(curp)

\* the two region characters of the code
CodeRegion == <<At(curp, REGION_0), At(curp, REGION_1)>>

\* the code passes the checksum, the date and the sex checks
PassesUpToSex ==
    /\ Len(curp) = LENGTH
    /\ verification_sum(curp) # -1
    /\ validate_verify(curp)
    /\ parse_birth_date(curp, today).error = NoError
    /\ SexGiven

\* the entries of the table whose key is the region of the code
RegionEntries == {i \in 1..Len(estados) : estados[i].key = CodeRegion}

\* C21: for a code that passes the checksum, date and sex checks, offsets
\* 11-12 are looked up in the table of 33 regions: a known code gives the
\* name and the ISO code of its entry, es_extranjero being true exactly for
\* NE, the only entry without an ISO code; a code the table lacks raises
\* CURPRegionError
C21_RegionLookup ==
    /\ Len(estados) = 33
    /\ \A i, j \in 1..Len(estados) : estados[i].key = estados[j].key => i = j
    /\ \A i \in 1..Len(estados) :
         estados[i].iso = "None" <=> estados[i].key = <<"N", "E">>
    /\ (pc # "new" /\ PassesUpToSex) =>
         /\ RegionEntries = {} => raised = "CURPRegionError"
         /\ RegionEntries # {} =>
              /\ raised # "CURPRegionError"
              /\ (name_chars_valid(curp) /\ nombre = None
                    /\ primer_apellido = None /\ nombre_completo = None
                    /\ SubSeq(curp, 1, 4) \notin inc_uncensored) =>
                   pc = "constructed"
              /\ pc = "constructed" =>
                   /\ \A i \in RegionEntries :
                        /\ obj.birth_place.name = estados[i].name
                        /\ obj.birth_place.iso = estados[i].iso
                   /\ es_extranjero(obj) <=> CodeRegion = <<"N", "E">>

\* a birth abroad
C21_Witness ==
    /\ pc = "constructed"
    /\ CodeRegion = <<"N", "E">>
    /\ es_extranjero(obj)
    /\ obj.birth_place.name = "Extranjero"

\* the first four characters of the code
CodeStart == SubSeq(curp, 1, NAME_CHAR + 1)

\* the censored skeletons whose X at offset 1 gives the start of the code
\* back when one of their vowels is written over it
SkeletonsOf(start) ==
    {i \in 1..Len(altisonantes) :
        /\ altisonantes[i].key[2] = "X"
        /\ In(start[2], altisonantes[i].vowels)
        /\ [altisonantes[i].key EXCEPT ![2] = start[2]] = start}

\* the errors of a name that does not match the code
NameMismatches ==
    {"CURPNameError", "CURPFirstSurnameError", "CURPSecondSurnameError",
     "CURPFullNameError"}

\* C22: a code that is valid otherwise and whose first four characters spell
\* an uncensored inconvenient word is refused with the plain CURPValueError
\* of a format error, whatever name arguments come with it: no name is
\* compared and no name-mismatch error is raised
C22_UncensoredWord ==
    (/\ pc # "new"
     /\ PassesUpToSex
     /\ RegionEntries # {}
     /\ SkeletonsOf(CodeStart) # {}) =>
        /\ pc = "raised"
        /\ raised = "CURPValueError"
        /\ raised \notin NameMismatches

\* BACA with the first surname BACH, which the censored BXCA code accepts
C22_Witness ==
    /\ pc = "raised"
    /\ raised = "CURPValueError"
    /\ CodeStart = <<"B", "A", "C", "A">>
    /\ primer_apellido = BACH
    /\ name_chars_valid(curp)

\* a letter that is no vowel
ConsonantLetters == Range(ascii_uppercase) \ {"A", "E", "I", "O", "U"}

\* one of the seven name characters is out of its class
NameCharOutOfClass ==
    \/ \E i \in {0, 2, 3} : At(curp, i) \notin Range(ascii_uppercase)
    \/ At(curp, 1) \notin {"A", "E", "I", "O", "U", "X"}
    \/ \E i \in {13, 14, 15} : At(curp, i) \notin ConsonantLetters

\* C23: a code of 18 characters with matching check digit and valid date,
\* sex and region is refused with a CURPValueError that is no
\* CURPVerificationError when offset 0, 2 or 3 is not an uppercase letter,
\* offset 1 is not one of A, E, I, O, U, X, or offset 13, 14 or 15 is not a
\* consonant
C23_NameCharacters ==
    (/\ pc # "new"
     /\ PassesUpToSex
     /\ RegionEntries # {}
     /\ NameCharOutOfClass) =>
        /\ pc = "raised"
        /\ IsInstance(raised, "CURPValueError")
        /\ ~IsInstance(raised, "CURPVerificationError")
        /\ raised = "CURPValueError"

\* a digit where the initial of the given name belongs
C23_Witness ==
    /\ pc = "raised"
    /\ raised = "CURPValueError"
    /\ IsDigit(At(curp, NAME_CHAR))
    /\ validate_verify(curp)
    /\ At(curp, SURNAME_A_CONSONANT) \in ConsonantLetters

\* the classes the constructor raises by name
NamedErrors ==
    {"CURPLengthError", "CURPVerificationError", "CURPDateError",
     "CURPSexError", "CURPRegionError", "CURPNameError",
     "CURPFirstSurnameError", "CURPSecondSurnameError", "CURPFullNameError"}

\* C24: every failure of the constructor on strings is an exception that is
\* an instance of the one root CURPValueError, of which the nine named
\* classes are subclasses; no exception of another class leaves it
C24_SingleRoot ==
    /\ \A e \in NamedErrors :
         e \in DOMAIN ExceptionBase /\ ExceptionBase[e] = "CURPValueError"
    /\ pc = "raised" =>
         /\ raised \in NamedErrors \cup {"CURPValueError"}
         /\ IsInstance(raised, "CURPValueError")
    /\ pc = "constructed" => raised = NoError

\* a character outside the charset: the root class itself
C24_Witness ==
    /\ pc = "raised"
    /\ raised = "CURPValueError"
    /\ Len(curp) = LENGTH
    /\ verification_sum(curp) = -1

\* a word of the full name has just been read
Stepped == call.method = "nombre_completo_valido" /\ call.word # <<>>

\* the call has returned
Returned == call.method = "nombre_completo_valido" /\ call.step = "returned"

\* the common first names
CommonNames ==
    { <<"M", "A", "R", "I", "A">>, <<"M", "A">>, <<"M", "A", ".">>,
      <<"J", "O", "S", "E">>, <<"J">>, <<"J", ".">> }

IsCommon(w) == unidecode(upper(w)) \in CommonNames

\* s begins with p
IsPrefix(p, s) == Len(p) <= Len(s) /\ SubSeq(s, 1, Len(p)) = p

\* C25: while no word has matched the given name, a word that is not
\* ignored, fails the given-name matcher and is no common first name makes
\* the call return False at once; a common first name that fails the matcher
\* is kept in the given-name part and the next word that is not ignored is
\* tried as given name again
C25_GivenNameFirst ==
    (Stepped /\ call.prev.state = "NONE" /\ ~IsIgnored(call.word)) =>
        /\ nombre_valido(curp, call.word) =>
             ~call.st.returned /\ call.st.state = "GIVEN_NAMES"
        /\ (~nombre_valido(curp, call.word) /\ ~IsCommon(call.word)) =>
             /\ call.st = [call.prev EXCEPT !.returned = TRUE]
             /\ Returned => ~call.valid
        /\ (~nombre_valido(curp, call.word) /\ IsCommon(call.word)) =>
             /\ ~call.st.returned
             /\ call.st.state = "NONE"
             /\ call.st.names["NONE"] =
                  call.prev.names["NONE"] \o call.prev.ignored_buffer
                  \o <<call.word>>
             /\ (Returned /\ call.valid) =>
                  IsPrefix(call.st.names["NONE"], split(call.names[1]))

\* "MA José ..." for ANA: José is the second common first name that is kept
C25_Witness ==
    /\ Stepped
    /\ call.step = "loop"
    /\ call.word = JOSE
    /\ call.prev.state = "NONE"
    /\ call.prev.names["NONE"] = <<MA>>
    /\ call.st.names["NONE"] = <<MA, JOSE>>
    /\ call.st.state = "NONE"
    /\ ~nombre_valido(curp, JOSE)

\* the parts when the scan ends: the ignored words left go to the current one
FinalParts ==
    [k \in Range(NameParseState) |->
        IF k = call.st.state THEN call.st.names[k] \o call.st.ignored_buffer
        ELSE call.st.names[k]]

\* C26: a run of ignored words goes, in its order and right before it, to
\* the part of the next word that is not ignored, the part being chosen
\* after the transition that word triggers; ignored words at the end of the
\* name go to the part that is current when the scan ends; the buffer is
\* empty after every word that is not ignored
C26_IgnoredWords ==
    /\ (Stepped /\ IsIgnored(call.word)) =>
         call.st = [call.prev EXCEPT !.ignored_buffer = Append(@, call.word)]
    /\ (Stepped /\ ~IsIgnored(call.word) /\ ~call.st.returned) =>
         /\ call.st.ignored_buffer = <<>>
         /\ call.st.state =
              (IF validation(curp, call.prev.state, call.word)
               THEN NameParseState[Index(NameParseState, call.prev.state) + 2]
               ELSE call.prev.state)
         /\ \A k \in Range(NameParseState) :
              call.st.names[k] =
                IF k = call.st.state
                THEN call.prev.names[k] \o call.prev.ignored_buffer
                     \o <<call.word>>
                ELSE call.prev.names[k]
    /\ (Returned /\ call.valid) =>
         call.names = << join(FinalParts["NONE"] \o FinalParts["GIVEN_NAMES"]),
                         join(FinalParts["FIRST_SURNAME"]),
                         join(FinalParts["SECOND_SURNAME"]) >>

\* "... DE la PAZ ...": the two ignored words open the first surname with PAZ
C26_Witness ==
    /\ Stepped
    /\ call.word = PAZ
    /\ call.prev.state = "GIVEN_NAMES"
    /\ call.prev.ignored_buffer = <<DE, <<"l", "a">>>>
    /\ call.st.state = "FIRST_SURNAME"
    /\ call.st.names["FIRST_SURNAME"] = <<DE, <<"l", "a">>, PAZ>>
    /\ call.st.ignored_buffer = <<>>

\* the place of a state in NONE, GIVEN_NAMES, FIRST_SURNAME, SECOND_SURNAME
Place(state) == Index(NameParseState, state) + 1

\* the matcher a word is tried with in each state
Matches(state, w) ==
    \/ state = "NONE" /\ nombre_valido(curp, w)
    \/ state = "GIVEN_NAMES" /\ primer_apellido_valido(curp, w)
    \/ state = "FIRST_SURNAME" /\ segundo_apellido_valido(curp, w)

\* C27: the state only moves forward along NONE, GIVEN_NAMES, FIRST_SURNAME,
\* SECOND_SURNAME, by one step for each word that is not ignored and that the
\* matcher of the state accepts, never on an ignored word; in SECOND_SURNAME
\* no word matches, every word left goes to the second surname and the
\* state is never advanced further, however long the name is
C27_ForwardOnly ==
    call.method = "nombre_completo_valido" =>
        /\ call.st.state \in Range(NameParseState)
        /\ Stepped =>
             /\ IsIgnored(call.word) => call.st.state = call.prev.state
             /\ (~IsIgnored(call.word) /\ ~call.st.returned) =>
                  Place(call.st.state) =
                    Place(call.prev.state)
                    + (IF Matches(call.prev.state, call.word) THEN 1 ELSE 0)
             /\ call.st.returned => call.st.state = call.prev.state
             /\ call.prev.state = "SECOND_SURNAME" =>
                  /\ ~call.st.returned
                  /\ call.st.state = "SECOND_SURNAME"
                  /\ ~IsIgnored(call.word) =>
                       call.st.names["SECOND_SURNAME"] =
                         call.prev.names["SECOND_SURNAME"]
                         \o call.prev.ignored_buffer \o <<call.word>>
                  /\ \A k \in Range(NameParseState) \ {"SECOND_SURNAME"} :
                       call.st.names[k] = call.prev.names[k]

\* "ANA PAZ CID CID CID CID": a fourth word that would match the second
\* surname is read in SECOND_SURNAME and stays there
C27_Witness ==
    /\ Stepped
    /\ call.prev.state = "SECOND_SURNAME"
    /\ call.st.state = "SECOND_SURNAME"
    /\ call.word = CID
    /\ segundo_apellido_valido(curp, CID)
    /\ Len(call.st.names["SECOND_SURNAME"]) = 4

\* C28: a tuple returned by nombre_completo_valido has exactly three parts,
\* and the words of the given name, the first surname and the second
\* surname, read in that order, are the words of the input in their order:
\* no word, ignored or common first name, is dropped, repeated or moved
C28_EveryWordKept ==
    (Returned /\ call.valid) =>
        /\ Len(call.names) = 3
        /\ split(call.names[1]) \o split(call.names[2]) \o split(call.names[3])
             = split(call.arg)
        /\ \A i \in 1..3 : call.names[i] = join(split(call.names[i]))

\* "MA José ANA PAZ CID": the two common first names stay in the given name
C28_Witness ==
    /\ Returned
    /\ call.valid
    /\ call.arg = join(<<MA, JOSE, ANA, PAZ, CID>>)
    /\ call.names = <<join(<<MA, JOSE, ANA>>), PAZ, CID>>

CharValue(c) ==
    IF c \in Range(digits) THEN Index(digits, c)
    ELSE IF Index(ascii_uppercase, c) <= 13 THEN 10 + Index(ascii_uppercase, c)
    ELSE 11 + Index(ascii_uppercase, c)

RECURSIVE SumFrom(_, _)
\* the sum over the offsets i..16 of (18 - i) times the value of c[i]
SumFrom(c, i) ==
    IF i > 16 THEN 0 ELSE (18 - i) * CharValue(At(c, i)) + SumFrom(c, i + 1)

\* C30: _verification_sum(code) is the sum over the offsets 0..16 of
\* (18 - i) times v(code[i]), v giving 0-9 to the digits, 10-23 to A-N and
\* 25-36 to O-Z, 24 never being produced and offset 17 not entering the sum;
\* _sum_to_verify_digit(s) is the one character 0 when s mod 10 = 0 and the
\* digit 10 - (s mod 10) otherwise
C30_WeightedSum ==
    /\ (/\ call.method = "_verification_sum"
        /\ Len(call.arg) = 18
        /\ \A i \in 1..18 : call.arg[i] \in Alnum) =>
         /\ call.valid
         /\ call.value = SumFrom(call.arg, 0)
         /\ call.value = verification_sum([call.arg EXCEPT ![18] = "0"])
         /\ \A i \in 0..16 : Index(CHARSET, At(call.arg, i)) # 24
    /\ call.method = "_sum_to_verify_digit" =>
         /\ call.value \in Range(digits)
         /\ call.arg % 10 = 0 => call.value = "0"
         /\ call.arg % 10 # 0 =>
              Index(digits, call.value) = 10 - (call.arg % 10)

\* a code of zeros with O at offset 16: twice 25
C30_Witness ==
    /\ call.method = "_verification_sum"
    /\ call.arg = [ZeroCode EXCEPT ![17] = "O"]
    /\ call.value = 50


============================================================================
